---- MODULE Spec2Model ----
(***************************************************************************)
(* Komet ML: the chunked earthquake-catalogue downloader (get_data.py),    *)
(* the chunk-file joiner (join_data.py), the synthetic seismic feature     *)
(* generator (models/test.py) and the /predict endpoint (routers/          *)
(* predict.py), as state machines.                                         *)
(*                                                                         *)
(* Dates are day numbers: every datetime the downloader handles is a       *)
(* midnight, and it only adds whole days to them, so strftime("%Y-%m-%d")  *)
(* loses nothing.                                                          *)
(***************************************************************************)
EXTENDS Integers, Sequences, FiniteSets, TLC

VARIABLES
    \* find_optimal_end_date
    start_date, max_end_date, left, right, best_end, ppc, stop, countFn,
    \* download_data_in_chunks
    current_date, final_date, chunk_number, total_samples_collected,
    optimal_end, chunk_count, dpc, files, requests,
    \* join_data_files
    data_files, out_f, first_feature, file_i, total_events, jpc,
    \* parse_feature
    feature, parsed_feature,
    \* generate_seismic_features
    generated,
    \* POST /predict
    data, artifacts_ok, called, response, rpc,
    \* predict_seismic_impact: the two historical tables, and the locals of a
    \* call at its return
    clustered_data, original_data, impact

plannerVars == <<start_date, max_end_date, left, right, best_end, ppc, stop, countFn>>
driverVars == <<current_date, final_date, chunk_number, total_samples_collected,
                optimal_end, chunk_count, dpc, files, requests>>
joinVars == <<data_files, out_f, first_feature, file_i, total_events, jpc>>
parseVars == <<feature, parsed_feature>>
genVars == <<generated>>
predictVars == <<data, artifacts_ok, called, response, rpc,
                 clustered_data, original_data, impact>>

vars == <<plannerVars, driverVars, joinVars, parseVars, genVars, predictVars>>

\* what the downloader, the joiner, the parser, the generator and the endpoint
\* each leave alone
notDownload == <<joinVars, parseVars, genVars, predictVars>>
notJoin == <<plannerVars, driverVars, parseVars, genVars, predictVars>>
notParse == <<plannerVars, driverVars, joinVars, genVars, predictVars>>
notGenerate == <<plannerVars, driverVars, joinVars, parseVars, predictVars>>
notPredict == <<plannerVars, driverVars, joinVars, parseVars, genVars>>

----------------------------------------------------------------------------
(* Bounds of the model *)

\* the last day number of a planned or downloaded span
MaxDay == 5
\* the largest slope, in thousands of events per day, of a linear count function
MaxK == 25
\* the number of chunk files the joiner is given
MaxFiles == 3
\* the number of features in a chunk file
MaxFeatures == 2
\* the number of rows of the historical tables
MaxRows == 2
\* the largest magnitude generated, in halves
MaxMagH == 20
\* the smallest magnitude generated, in halves below zero
MaxNegMagH == 2

----------------------------------------------------------------------------
(* get_data.py: module constants *)

MAX_EVENTS == 20000
TARGET_EVENTS == 15000
\* SAMPLES = float('inf'): no total reaches it
SAMPLES == "inf"

SamplesReached(total) == IF SAMPLES = "inf" THEN FALSE ELSE total >= SAMPLES

\* what the count endpoint may answer: below the 80% threshold, between the
\* threshold and the cap, above the cap
CountLevels == {0, 5000, 12000, 20000, 25000}

----------------------------------------------------------------------------
(* get_data.py: find_optimal_end_date *)

\* idle values of the planner outside a call
PlannerIdle ==
    /\ start_date = 0 /\ max_end_date = 0 /\ left = 0 /\ right = 0
    /\ best_end = 0 /\ ppc = "idle" /\ stop = "none" /\ countFn = <<>>

\* mid = left + timedelta(days=(right - left).days // 2)
Mid == left + ((right - left) \div 2)

\* count <= MAX_EVENTS
WithinCap(count) == count <= MAX_EVENTS

\* count >= TARGET_EVENTS * 0.8
ReachesTarget(count) == count * 10 >= TARGET_EVENTS * 8

\* the loop test and the degenerate-interval break
LoopContinues == left <= right /\ Mid > start_date

\* left = start_date; right = max_end_date; best_end = start_date
EnterPlanner(s, e) ==
    /\ start_date' = s /\ max_end_date' = e
    /\ left' = s /\ right' = e /\ best_end' = s
    /\ ppc' = "loop" /\ stop' = "none"

\* variant: over the cap, right = mid (the day is not stepped over)
FindOptimalIterRightOnMid(count) ==
    /\ ppc = "loop"
    /\ LoopContinues
    /\ IF WithinCap(count)
         THEN /\ best_end' = Mid
              /\ IF ReachesTarget(count)
                   THEN /\ ppc' = "returned" /\ stop' = "early"
                        /\ UNCHANGED <<left, right>>
                   ELSE /\ left' = Mid + 1
                        /\ UNCHANGED <<right, ppc, stop>>
         ELSE /\ right' = Mid
              /\ UNCHANGED <<left, best_end, ppc, stop>>
    /\ UNCHANGED <<start_date, max_end_date, countFn>>

\* one iteration of the while loop whose count request answered `count`
FindOptimalIter(count) ==
    /\ ppc = "loop"
    /\ LoopContinues
    /\ IF WithinCap(count)
         THEN /\ best_end' = Mid
              /\ IF ReachesTarget(count)
                   THEN /\ ppc' = "returned" /\ stop' = "early"
                        /\ UNCHANGED <<left, right>>
                   ELSE /\ left' = Mid + 1
                        /\ UNCHANGED <<right, ppc, stop>>
         ELSE /\ right' = Mid - 1
              /\ UNCHANGED <<left, best_end, ppc, stop>>
    /\ UNCHANGED <<start_date, max_end_date, countFn>>

\* the loop ends (left > right, or mid <= start_date): return best_end
FindOptimalExit ==
    /\ ppc = "loop"
    /\ ~LoopContinues
    /\ ppc' = "returned"
    /\ stop' = IF left > right THEN "exhausted" ELSE "degenerate"
    /\ UNCHANGED <<start_date, max_end_date, left, right, best_end, countFn>>

----------------------------------------------------------------------------
(* get_data.py: download_data_in_chunks *)

\* day 0 is datetime(start_year, 1, 1)
StartDay == 0

DriverIdle ==
    /\ current_date = 0 /\ final_date = 0 /\ chunk_number = 1
    /\ total_samples_collected = 0 /\ optimal_end = 0 /\ chunk_count = 0
    /\ dpc = "idle" /\ files = <<>> /\ requests = 0

\* variant: the next chunk starts on the day the last one ended
NextChunkStartOnEnd(end) == end

\* current_date = optimal_end + timedelta(days=1)
NextChunkStart(end) == end + 1

\* while current_date < final_date and total_samples_collected < SAMPLES
DriverLoopTest == current_date < final_date /\ ~SamplesReached(total_samples_collected)

\* line 110, then line 114's call
ChunkLoop ==
    /\ dpc = "loop"
    /\ IF DriverLoopTest
         THEN /\ EnterPlanner(current_date, final_date)
              /\ dpc' = "plan"
         ELSE /\ dpc' = "done"
              /\ UNCHANGED <<start_date, max_end_date, left, right, best_end, ppc, stop>>
    /\ UNCHANGED <<countFn, current_date, final_date, chunk_number,
                   total_samples_collected, optimal_end, chunk_count, files, requests>>

\* an iteration of the planner whose count request succeeds
PlanCount ==
    /\ dpc = "plan"
    /\ \E count \in CountLevels : FindOptimalIter(count)
    /\ requests' = requests + 1
    /\ UNCHANGED <<current_date, final_date, chunk_number, total_samples_collected,
                   optimal_end, chunk_count, dpc, files>>

\* an iteration of the planner whose count request raises
PlanCountFails ==
    /\ dpc = "plan" /\ ppc = "loop" /\ LoopContinues
    /\ requests' = requests + 1
    /\ dpc' = "failed"
    /\ UNCHANGED <<plannerVars, current_date, final_date, chunk_number,
                   total_samples_collected, optimal_end, chunk_count, files>>

PlanExit ==
    /\ dpc = "plan"
    /\ FindOptimalExit
    /\ UNCHANGED driverVars

\* lines 114-119: optimal_end is the planner's result; its count is fetched again
ChunkCount ==
    /\ dpc = "plan" /\ ppc = "returned"
    /\ optimal_end' = best_end
    /\ requests' = requests + 1
    /\ \E count \in CountLevels : chunk_count' = count
    /\ dpc' = "download"
    /\ ppc' = "idle"
    /\ UNCHANGED <<start_date, max_end_date, left, right, best_end, stop, countFn,
                   current_date, final_date, chunk_number, total_samples_collected, files>>

ChunkCountFails ==
    /\ dpc = "plan" /\ ppc = "returned"
    /\ optimal_end' = best_end
    /\ requests' = requests + 1
    /\ dpc' = "failed"
    /\ UNCHANGED <<plannerVars, current_date, final_date, chunk_number,
                   total_samples_collected, chunk_count, files>>

\* lines 121-131: download_data writes the chunk file and returns expected_count
Download ==
    /\ dpc = "download"
    /\ requests' = requests + 1
    /\ files' = Append(files, <<current_date, optimal_end>>)
    /\ total_samples_collected' = total_samples_collected + chunk_count
    /\ current_date' = NextChunkStart(optimal_end)
    /\ chunk_number' = chunk_number + 1
    /\ dpc' = IF SamplesReached(total_samples_collected') THEN "done" ELSE "loop"
    /\ UNCHANGED <<plannerVars, final_date, optimal_end, chunk_count>>

\* variant: the body is written to the chunk file before the status is looked at
DownloadFailsAfterWrite ==
    /\ dpc = "download"
    /\ requests' = requests + 1
    /\ files' = Append(files, <<current_date, optimal_end>>)
    /\ dpc' = "failed"
    /\ UNCHANGED <<plannerVars, current_date, final_date, chunk_number,
                   total_samples_collected, optimal_end, chunk_count>>

\* response.raise_for_status() raises before the file is opened
DownloadFails ==
    /\ dpc = "download"
    /\ requests' = requests + 1
    /\ dpc' = "failed"
    /\ UNCHANGED <<plannerVars, current_date, final_date, chunk_number,
                   total_samples_collected, optimal_end, chunk_count, files>>

----------------------------------------------------------------------------
(* join_data.py: parse_feature *)

avoid_keys == {"id", "url", "detail", "code", "ids", "sources", "types", "title",
               "status", "type"}

\* the keys a properties or geometry object may hold: kept ones and avoided ones
Keys == {"mag", "place", "id", "type"}
Values == {1, 2}

\* a JSON object as a function from its keys
Mappings == UNION {[S -> Values] : S \in SUBSET Keys}

\* a feature record: "properties" and "geometry" are each present or not
Features == UNION {[S -> Mappings] : S \in SUBSET {"properties", "geometry"}}

\* the loop `for key, value in obj.items(): if key not in avoid_keys: acc[key] = value`
CopyKept(acc, obj) ==
    [k \in DOMAIN acc \cup (DOMAIN obj \ avoid_keys) |->
        IF k \in DOMAIN obj THEN obj[k] ELSE acc[k]]

\* variant: geometry first, then properties over it
parse_feature_properties_last(f) ==
    LET empty == [k \in {} |-> 0]
        afterGeometry == IF "geometry" \in DOMAIN f
                           THEN CopyKept(empty, f["geometry"]) ELSE empty
    IN  IF "properties" \in DOMAIN f
          THEN CopyKept(afterGeometry, f["properties"]) ELSE afterGeometry

\* properties first, then geometry over it
parse_feature(f) ==
    LET empty == [k \in {} |-> 0]
        afterProperties == IF "properties" \in DOMAIN f
                             THEN CopyKept(empty, f["properties"]) ELSE empty
    IN  IF "geometry" \in DOMAIN f
          THEN CopyKept(afterProperties, f["geometry"]) ELSE afterProperties

ParseIdle == feature = <<>> /\ parsed_feature = <<>>

ParseFeature ==
    /\ parsed_feature = <<>>
    /\ parsed_feature' = <<parse_feature(feature)>>
    /\ UNCHANGED feature

----------------------------------------------------------------------------
(* join_data.py: join_data_files *)

\* the features the joiner's chunk files hold
JoinFeatures ==
    { [x \in {"properties", "geometry"} |->
         IF x = "properties" THEN [k \in {"mag", "id"} |-> 1]
                             ELSE [k \in {"mag", "type"} |-> 2]],
      [x \in {"properties"} |-> [k \in {"place"} |-> 1]] }

RECURSIVE SeqsUpTo(_, _)
SeqsUpTo(S, n) ==
    IF n = 0 THEN {<<>>}
    ELSE LET shorter == SeqsUpTo(S, n - 1)
         IN  shorter \cup {Append(q, x) : q \in {r \in shorter : Len(r) = n - 1}, x \in S}

\* what a chunk file may hold:
\*   "invalid"  text json.load rejects (JSONDecodeError)
\*   "scalar"   JSON that is null, a number or a boolean
\*   "object"   a JSON object, with or without a "features" list
ChunkFiles ==
    {[kind |-> "invalid"], [kind |-> "scalar"], [kind |-> "object", keys |-> {}]}
    \cup {[kind |-> "object", keys |-> {"features"}, features |-> fs] :
             fs \in SeqsUpTo(JoinFeatures, MaxFeatures)}

JoinIdle ==
    /\ data_files = <<>> /\ out_f = <<>> /\ first_feature = TRUE
    /\ file_i = 0 /\ total_events = 0 /\ jpc = "idle"

Open == [tok |-> "["]
Close == [tok |-> "]"]
Comma == [tok |-> ","]
Elem(v) == [tok |-> "elem", val |-> v]

\* lines 46-56 for the features of one file: a comma before every feature but
\* the first one written, then the parsed feature
RECURSIVE WriteFeatures(_, _, _)
WriteFeatures(written, first, fs) ==
    IF fs = <<>> THEN written
    ELSE WriteFeatures((IF first THEN written ELSE Append(written, Comma))
                          \o <<Elem(parse_feature(Head(fs)))>>,
                       FALSE, Tail(fs))

\* lines 31-33
JoinStart ==
    /\ jpc = "start"
    /\ out_f' = <<Open>>
    /\ first_feature' = TRUE
    /\ file_i' = 1
    /\ jpc' = "files"
    /\ UNCHANGED <<data_files, total_events>>

\* `'features' in data and data['features']`
HasFeatures(d) == "features" \in d.keys /\ d.features # <<>>

\* lines 35-70 for a file json.load accepts as an object
JoinFile ==
    /\ jpc = "files" /\ file_i <= Len(data_files)
    /\ data_files[file_i].kind = "object"
    /\ LET d == data_files[file_i]
       IN  IF HasFeatures(d)
             THEN /\ out_f' = WriteFeatures(out_f, first_feature, d.features)
                  /\ first_feature' = FALSE
                  /\ total_events' = total_events + Len(d.features)
             ELSE UNCHANGED <<out_f, first_feature, total_events>>
    /\ file_i' = file_i + 1
    /\ UNCHANGED <<data_files, jpc>>

\* json.load raises JSONDecodeError: caught at line 64, the file is skipped
JoinSkipInvalid ==
    /\ jpc = "files" /\ file_i <= Len(data_files)
    /\ data_files[file_i].kind = "invalid"
    /\ file_i' = file_i + 1
    /\ UNCHANGED <<data_files, out_f, first_feature, total_events, jpc>>

\* `'features' in data` on None, a number or a boolean raises TypeError, which
\* line 64 does not catch: the exception leaves join_data_files, the `with`
\* closes the output as written so far
JoinTypeError ==
    /\ jpc = "files" /\ file_i <= Len(data_files)
    /\ data_files[file_i].kind = "scalar"
    /\ jpc' = "aborted"
    /\ UNCHANGED <<data_files, out_f, first_feature, file_i, total_events>>

\* line 72
JoinEnd ==
    /\ jpc = "files" /\ file_i > Len(data_files)
    /\ out_f' = Append(out_f, Close)
    /\ jpc' = "done"
    /\ UNCHANGED <<data_files, first_feature, file_i, total_events>>

----------------------------------------------------------------------------
(* models/test.py: energy_to_magnitude, calculate_kinetic_energy *)
(* Units: mass in 10^6 kg, velocity in km/s, so energy in 10^12 J;         *)
(* magnitude in thousandths; cdi and mmi in tenths; depth in metres.       *)

\* the quotient rounded towards zero, as Python's int() rounds
Trunc(a, b) == IF a >= 0 THEN a \div b ELSE -((-a) \div b)

\* floor(log10(n)) for n >= 1, exact on the powers of ten
RECURSIVE Log10(_)
Log10(n) == IF n < 10 THEN 0 ELSE 1 + Log10(n \div 10)

\* 0.5 * mass_kg * velocity_ms**2
calculate_kinetic_energy(mass, velocity) == (mass * velocity * velocity) \div 2

\* (log10(energy_joules) - 4.8) / 1.5, in thousandths;
\* log10(energy_joules) = 12 + log10(energy in 10^12 J)
energy_to_magnitude(energy) == Trunc(((12 + Log10(energy)) * 10 - 48) * 1000, 15)

----------------------------------------------------------------------------
(* models/test.py: generate_seismic_features *)

\* lines 43-50
Cdi(magnitude) ==
    IF magnitude >= 7000 THEN 60
    ELSE IF magnitude >= 6000 THEN 40
    ELSE IF magnitude >= 5000 THEN 30
    ELSE 20

\* lines 53-60
Mmi(magnitude) ==
    IF magnitude >= 7000 THEN 70
    ELSE IF magnitude >= 6000 THEN 50
    ELSE IF magnitude >= 5000 THEN 40
    ELSE 30

\* max(0, int((magnitude - 3) * 1000))
Felt(magnitude) == IF magnitude - 3000 > 0 THEN magnitude - 3000 ELSE 0

\* int(magnitude * 100 + 100)
Sig(magnitude) == Trunc(magnitude + 1000, 10)

\* variant: the Yellow rule's significance test the wrong way round
AlertSigFlipped(magnitude, sig, mmi, cdi, depth) ==
    IF magnitude >= 7000 \/ sig >= 1000 \/ mmi >= 80 \/ cdi >= 70
      THEN 4
    ELSE IF magnitude >= 6500 \/ sig >= 700 \/ mmi >= 65 \/ cdi >= 55
            \/ (magnitude >= 6000 /\ depth <= 10000)
      THEN 3
    ELSE IF magnitude >= 6000 \/ sig <= 400 \/ mmi >= 50 \/ cdi >= 40
            \/ (magnitude >= 5500 /\ depth <= 20000)
      THEN 2
    ELSE IF magnitude >= 5500 \/ sig >= 200 \/ mmi >= 40 \/ cdi >= 30
            \/ (magnitude >= 5000 /\ depth <= 30000)
      THEN 1
    ELSE 0

\* lines 71-87: the cascade, first match wins
Alert(magnitude, sig, mmi, cdi, depth) ==
    IF magnitude >= 7000 \/ sig >= 1000 \/ mmi >= 80 \/ cdi >= 70
      THEN 4
    ELSE IF magnitude >= 6500 \/ sig >= 700 \/ mmi >= 65 \/ cdi >= 55
            \/ (magnitude >= 6000 /\ depth <= 10000)
      THEN 3
    ELSE IF magnitude >= 6000 \/ sig >= 400 \/ mmi >= 50 \/ cdi >= 40
            \/ (magnitude >= 5500 /\ depth <= 20000)
      THEN 2
    ELSE IF magnitude >= 5500 \/ sig >= 200 \/ mmi >= 40 \/ cdi >= 30
            \/ (magnitude >= 5000 /\ depth <= 30000)
      THEN 1
    ELSE 0

\* depth is the draw of np.random.uniform(0, 5), time the clock's reading
generate_seismic_features(magnitude, latitude, longitude, depth, time) ==
    [mag |-> magnitude, latitude |-> latitude, longitude |-> longitude,
     time |-> time, depth |-> depth,
     cdi |-> Cdi(magnitude), mmi |-> Mmi(magnitude),
     felt |-> Felt(magnitude), sig |-> Sig(magnitude),
     alert |-> Alert(magnitude, Sig(magnitude), Mmi(magnitude), Cdi(magnitude), depth),
     tsunami |-> 0, magType |-> 24]

\* np.random.uniform(0, 5): the ends and the middle of the interval, in metres
Depths == {0, 2500, 5000}
Times == {1}

\* magnitudes from -MaxNegMagH/2 to MaxMagH/2: every half, and 0.001 below it
Magnitudes == {h * 500 - d : h \in (0 - MaxNegMagH)..MaxMagH, d \in {0, 1}}

GenIdle == generated = <<>>

\* a call of generate_seismic_features; `generated` keeps the result of the
\* call before it and its own
Generate ==
    \E magnitude \in Magnitudes, depth \in Depths, time \in Times :
        generated' = (IF generated = <<>> THEN <<>> ELSE <<generated[Len(generated)]>>)
                       \o <<generate_seismic_features(magnitude, 0, 0, depth, time)>>

----------------------------------------------------------------------------
(* models/test.py: predict_seismic_impact *)

\* the rows dataset.csv may hold, in original scale
OriginalRows ==
    { [mag |-> 6100, time |-> 7, felt |-> 12, cdi |-> 45, mmi |-> 52, alert |-> 2,
       sig |-> 580, tsunami |-> 1, magType |-> 3, longitude |-> 100, latitude |-> 10,
       depth |-> 35000],
      [mag |-> 7900, time |-> 8, felt |-> 900, cdi |-> 80, mmi |-> 85, alert |-> 4,
       sig |-> 1100, tsunami |-> 0, magType |-> 5, longitude |-> 139, latitude |-> 35,
       depth |-> 12000],
      [mag |-> 4600, time |-> 9, felt |-> 0, cdi |-> 20, mmi |-> 25, alert |-> 0,
       sig |-> 326, tsunami |-> 0, magType |-> 7, longitude |-> -70, latitude |-> -20,
       depth |-> 600000] }

\* the cluster ids kmeans.predict may answer
Clusters == {0, 1}

\* line 160
all_features == <<"mag", "time", "felt", "cdi", "mmi", "alert", "sig", "tsunami",
                  "magType", "longitude", "latitude", "depth">>

\* line 120
comparison_features == <<"mag", "depth", "latitude", "longitude", "sig", "cdi", "mmi">>

\* model_info["features_to normalize"]: find_closest_in_cluster reads the seven
\* comparison features out of the normalized ones
features_to_normalize == comparison_features

\* scaler.transform, one feature: (x - mean) / scale, in tenths
ScalerMean == [f \in {comparison_features[n] : n \in 1..Len(comparison_features)} |->
                 IF f = "mag" THEN 5000 ELSE IF f = "sig" THEN 400 ELSE 0]
ScalerScale == [f \in {comparison_features[n] : n \in 1..Len(comparison_features)} |->
                  IF f \in {"mag", "depth"} THEN 1000
                  ELSE IF f = "sig" THEN 100 ELSE 10]
Transform(f, x) == Trunc((x - ScalerMean[f]) * 10, ScalerScale[f])

\* lines 164-166 and 187: the normalized features, by name
Normalized(features) ==
    [f \in {features_to_normalize[n] : n \in 1..Len(features_to_normalize)} |->
        Transform(f, features[f])]

\* a row of clustered_earthquakes.csv: the normalized version of a row of
\* dataset.csv and the cluster it was assigned to
ClusteredRow(original, cluster) ==
    [f \in DOMAIN Normalized(original) \cup {"cluster"} |->
        IF f = "cluster" THEN cluster ELSE Normalized(original)[f]]

\* the historical rows the two tables may hold, the same row at the same place
HistoryRows ==
    {[clustered |-> ClusteredRow(row, cluster), original |-> row] :
        row \in OriginalRows, cluster \in Clusters}

\* euclidean_distances, squared: the sum over comparison_features
RECURSIVE SquaredDistance(_, _, _)
SquaredDistance(a, b, n) ==
    IF n = 0 THEN 0
    ELSE LET f == comparison_features[n]
         IN  (a[f] - b[f]) * (a[f] - b[f]) + SquaredDistance(a, b, n - 1)

\* np.argmin: the first place of the smallest value
ArgMin(distances) ==
    CHOOSE n \in 1..Len(distances) :
        /\ \A m \in 1..Len(distances) : distances[n] <= distances[m]
        /\ \A m \in 1..(n - 1) : distances[m] > distances[n]

\* the index labels of the rows whose cluster is one of cluster_ids, in order
RECURSIVE Labels(_, _, _)
Labels(clustered, cluster_ids, n) ==
    IF n = 0 THEN <<>>
    ELSE Labels(clustered, cluster_ids, n - 1)
           \o (IF clustered[n]["cluster"] \in cluster_ids THEN <<n>> ELSE <<>>)

\* lines 114-138 given the labels of cluster_data: <<>> is (None, None, None).
\* closest_example_normalized.name is the row's label, and original_data.iloc
\* reads the row at that place
ClosestAmong(labels, synthetic_features, clustered, original) ==
    IF Len(labels) = 0 THEN <<>>
    ELSE LET distances == [n \in 1..Len(labels) |->
                              SquaredDistance(synthetic_features, clustered[labels[n]],
                                              Len(comparison_features))]
             closest_idx == ArgMin(distances)
             name == labels[closest_idx]
         IN  <<[normalized |-> clustered[name], original |-> original[name],
                distance |-> distances[closest_idx], name |-> name]>>

\* variant: cluster_data is the whole table
find_closest_in_cluster_unfiltered(cluster_id, synthetic_features, clustered, original) ==
    ClosestAmong(Labels(clustered, Clusters, Len(clustered)),
                 synthetic_features, clustered, original)

\* cluster_data = clustered_data[clustered_data['cluster'] == cluster_id]
find_closest_in_cluster(cluster_id, synthetic_features, clustered, original) ==
    ClosestAmong(Labels(clustered, {cluster_id}, Len(clustered)),
                 synthetic_features, clustered, original)

keep_original == {"mag", "latitude", "longitude"}

\* variant: every column of the example is written over the synthetic vector
RefineEveryColumn(synthetic_features, closest_original) ==
    [column \in DOMAIN synthetic_features \cup DOMAIN closest_original |->
        IF column \in DOMAIN closest_original
          THEN closest_original[column]
          ELSE synthetic_features[column]]

\* lines 194-201: the synthetic vector with the example's columns written over
\* it, but for keep_original
Refine(synthetic_features, closest_original) ==
    [column \in DOMAIN synthetic_features \cup DOMAIN closest_original |->
        IF column \in DOMAIN closest_original /\ column \notin keep_original
          THEN closest_original[column]
          ELSE synthetic_features[column]]

\* line 157: what the function returns when an artifact fails to load
LoadFailure == [kind |-> "None"]

\* lines 203 and 206: a 3-tuple; `result` holds the feature vector (<<>> stands
\* for None)
Returned(features, energy, cluster) ==
    [kind |-> "tuple", result |-> <<features>>, energy |-> energy, cluster |-> cluster]

\* lines 142-206 for a positive energy: the locals of the call at its return.
\* The depth and the time are the draws of generate_seismic_features, the
\* cluster is kmeans.predict's answer
ImpactRuns(mass_kg, velocity_ms, latitude, longitude, loaded) ==
    LET energy == calculate_kinetic_energy(mass_kg, velocity_ms)
        magnitude == energy_to_magnitude(energy)
        synthetics == {generate_seismic_features(magnitude, latitude, longitude,
                                                 depth, time) :
                          depth \in Depths, time \in Times}
    IN  IF ~loaded
          THEN {[synthetic_features |-> synthetic, energy |-> energy,
                 ret |-> LoadFailure] : synthetic \in synthetics}
          ELSE {LET closest == find_closest_in_cluster(cluster, Normalized(synthetic),
                                                       clustered_data, original_data)
                IN  [synthetic_features |-> synthetic, energy |-> energy,
                     predicted_cluster |-> cluster, closest |-> closest,
                     ret |-> Returned(IF closest = <<>> THEN synthetic
                                      ELSE Refine(synthetic, closest[1].original),
                                      energy, cluster)] :
                   synthetic \in synthetics, cluster \in Clusters}

ValueError(detail) == [kind |-> "ValueError", detail |-> detail]

\* what predict_seismic_impact may return: `loaded` says whether the five
\* artifacts load
predict_seismic_impact(mass_kg, velocity_ms, latitude, longitude, loaded) ==
    IF calculate_kinetic_energy(mass_kg, velocity_ms) <= 0
      THEN {ValueError("Energy must be positive")}
      ELSE {run.ret : run \in ImpactRuns(mass_kg, velocity_ms, latitude, longitude, loaded)}

\* a call of predict_seismic_impact, its locals kept
ImpactCall ==
    /\ impact = <<>>
    /\ rpc = "direct"
    /\ IF calculate_kinetic_energy(data.mass, data.velocity) <= 0
         THEN impact' = <<[ret |-> ValueError("Energy must be positive")]>>
         ELSE \E run \in ImpactRuns(data.mass, data.velocity, data.latitude,
                                    data.longitude, artifacts_ok) :
                 impact' = <<run>>
    /\ UNCHANGED <<data, artifacts_ok, called, response, rpc,
                   clustered_data, original_data>>

----------------------------------------------------------------------------
(* routers/predict.py: POST /predict *)

\* variant: a mass of zero passes
ValidationErrorZeroMass(d) ==
    IF d.mass < 0 THEN "Mass must be positive"
    ELSE IF d.velocity <= 0 THEN "Velocity must be positive"
    ELSE IF ~(-90 <= d.latitude /\ d.latitude <= 90)
      THEN "Latitude must be between -90 and 90 degrees"
    ELSE IF ~(-180 <= d.longitude /\ d.longitude <= 180)
      THEN "Longitude must be between -180 and 180 degrees"
    ELSE ""

\* lines 37-44: the detail of the first check that fails, "" when all pass
ValidationError(d) ==
    IF d.mass <= 0 THEN "Mass must be positive"
    ELSE IF d.velocity <= 0 THEN "Velocity must be positive"
    ELSE IF ~(-90 <= d.latitude /\ d.latitude <= 90)
      THEN "Latitude must be between -90 and 90 degrees"
    ELSE IF ~(-180 <= d.longitude /\ d.longitude <= 180)
      THEN "Longitude must be between -180 and 180 degrees"
    ELSE ""

HTTPException(status_code, detail) == [status |-> status_code, detail |-> detail]

alert_names(n) ==
    CASE n = 0 -> "No Alert" [] n = 1 -> "Green" [] n = 2 -> "Yellow"
      [] n = 3 -> "Orange" [] n = 4 -> "Red" [] OTHER -> "Unknown"

\* lines 53-84 on what predict_seismic_impact returned. Unpacking a lone None
\* into three names raises TypeError, which line 88 turns into a 500
Respond(d, ret) ==
    IF ret.kind = "ValueError"
      THEN HTTPException(500, "Internal server error: Energy must be positive")
    ELSE IF ret.kind = "None"
      THEN HTTPException(500,
             "Internal server error: cannot unpack non-iterable NoneType object")
    ELSE IF ret.result = <<>>
      THEN HTTPException(500, "Prediction model failed to load or execute")
    ELSE [status |-> 200, detail |-> "",
          success |-> TRUE, magnitude |-> ret.result[1].mag, energy |-> ret.energy,
          cluster |-> ret.cluster, alert_level |-> alert_names(ret.result[1].alert),
          alert_level_numeric |-> ret.result[1].alert,
          intensity_mmi |-> ret.result[1].mmi, community_intensity_cdi |-> ret.result[1].cdi,
          significance |-> ret.result[1].sig, depth |-> ret.result[1].depth,
          tsunami_warning |-> (ret.result[1].tsunami # 0),
          location |-> [latitude |-> d.latitude, longitude |-> d.longitude],
          asteroid_properties |-> [mass_kg |-> d.mass, velocity_ms |-> d.velocity,
                                   kinetic_energy_joules |-> ret.energy]]

\* the request bodies: around each validation limit
Masses == {-2, 0, 2, 2000}
Velocities == {-10, 0, 1, 10}
Latitudes == {-91, -90, 35, 90, 91}
Longitudes == {-181, -180, 139, 180, 181}

PredictIdle ==
    /\ data = <<>> /\ artifacts_ok = TRUE /\ called = FALSE
    /\ response = <<>> /\ rpc = "idle"
    /\ clustered_data = <<>> /\ original_data = <<>> /\ impact = <<>>

\* the historical tables: clustered_earthquakes.csv and dataset.csv, row for row
HistoryLoaded ==
    \E rows \in SeqsUpTo(HistoryRows, MaxRows) :
        /\ clustered_data = [n \in 1..Len(rows) |-> rows[n].clustered]
        /\ original_data = [n \in 1..Len(rows) |-> rows[n].original]

\* a request whose validation fails: 400, nothing computed
PredictRejects ==
    /\ rpc = "received"
    /\ ValidationError(data) # ""
    /\ response' = HTTPException(400, ValidationError(data))
    /\ rpc' = "responded"
    /\ UNCHANGED <<data, artifacts_ok, called, clustered_data, original_data, impact>>

\* a request that passes validation: predict_seismic_impact is called
PredictCalls ==
    /\ rpc = "received"
    /\ ValidationError(data) = ""
    /\ called' = TRUE
    /\ \E ret \in predict_seismic_impact(data.mass, data.velocity, data.latitude,
                                         data.longitude, artifacts_ok) :
         response' = Respond(data, ret)
    /\ rpc' = "responded"
    /\ UNCHANGED <<data, artifacts_ok, clustered_data, original_data, impact>>

----------------------------------------------------------------------------
(* Specifications *)

\* the count functions of a span: any answers, and the linear ones
\* count(start, end) = K * (end - start).days
LinearCount(s, e, K) == [d \in s..e |-> K * (d - s)]
CountFns(s, e) ==
    [s..e -> CountLevels] \cup {LinearCount(s, e, k * 1000) : k \in 0..MaxK}

\* find_optimal_end_date alone, against a fixed count function of the end date
InitPlanner ==
    /\ start_date \in 0..MaxDay
    /\ max_end_date \in start_date..MaxDay
    /\ countFn \in CountFns(start_date, max_end_date)
    /\ left = start_date /\ right = max_end_date /\ best_end = start_date
    /\ ppc = "loop" /\ stop = "none"
    /\ DriverIdle /\ JoinIdle /\ ParseIdle /\ GenIdle /\ PredictIdle

\* get_event_count(session, start_str, mid_str) answers countFn[mid]
PlannerCount ==
    /\ dpc = "idle"
    /\ FindOptimalIter(countFn[Mid])
    /\ UNCHANGED <<driverVars, notDownload>>

PlannerReturn ==
    /\ dpc = "idle"
    /\ FindOptimalExit
    /\ UNCHANGED <<driverVars, notDownload>>

NextPlanner == PlannerCount \/ PlannerReturn

SpecPlanner == InitPlanner /\ [][NextPlanner]_vars

\* the event loop runs the coroutine on: an iteration that can run does run
SpecPlannerFair == SpecPlanner /\ WF_vars(NextPlanner)

\* download_data_in_chunks(start_year, end_year), start_year <= end_year
InitDownload ==
    /\ PlannerIdle
    /\ current_date = StartDay /\ final_date \in (StartDay + 1)..MaxDay
    /\ chunk_number = 1 /\ total_samples_collected = 0
    /\ optimal_end = 0 /\ chunk_count = 0
    /\ dpc = "loop" /\ files = <<>> /\ requests = 0
    /\ JoinIdle /\ ParseIdle /\ GenIdle /\ PredictIdle

NextDownload ==
    \/ ChunkLoop /\ UNCHANGED notDownload
    \/ PlanCount /\ UNCHANGED notDownload
    \/ PlanCountFails /\ UNCHANGED notDownload
    \/ PlanExit /\ UNCHANGED notDownload
    \/ ChunkCount /\ UNCHANGED notDownload
    \/ ChunkCountFails /\ UNCHANGED notDownload
    \/ Download /\ UNCHANGED notDownload
    \/ DownloadFails /\ UNCHANGED notDownload

SpecDownload == InitDownload /\ [][NextDownload]_vars

\* the event loop runs the coroutine on: a step that can be taken is taken
SpecDownloadFair == SpecDownload /\ WF_vars(NextDownload)

\* join_data_files over the chunk files of raw_data
InitJoin ==
    /\ data_files \in SeqsUpTo(ChunkFiles, MaxFiles)
    /\ out_f = <<>> /\ first_feature = TRUE /\ file_i = 0 /\ total_events = 0
    /\ jpc = "start"
    /\ PlannerIdle /\ DriverIdle /\ ParseIdle /\ GenIdle /\ PredictIdle

NextJoin ==
    \/ JoinStart /\ UNCHANGED notJoin
    \/ JoinFile /\ UNCHANGED notJoin
    \/ JoinSkipInvalid /\ UNCHANGED notJoin
    \/ JoinTypeError /\ UNCHANGED notJoin
    \/ JoinEnd /\ UNCHANGED notJoin

SpecJoin == InitJoin /\ [][NextJoin]_vars

\* parse_feature on a feature record
InitParse ==
    /\ feature \in Features /\ parsed_feature = <<>>
    /\ PlannerIdle /\ DriverIdle /\ JoinIdle /\ GenIdle /\ PredictIdle

NextParse == ParseFeature /\ UNCHANGED notParse

SpecParse == InitParse /\ [][NextParse]_vars

\* calls of generate_seismic_features
InitGenerate ==
    /\ GenIdle
    /\ PlannerIdle /\ DriverIdle /\ JoinIdle /\ ParseIdle /\ PredictIdle

NextGenerate == Generate /\ UNCHANGED notGenerate

SpecGenerate == InitGenerate /\ [][NextGenerate]_vars

\* a POST /predict request; the model artifacts load or not
InitPredict ==
    /\ data \in [mass : Masses, velocity : Velocities,
                 latitude : Latitudes, longitude : Longitudes]
    /\ artifacts_ok \in BOOLEAN
    /\ called = FALSE /\ response = <<>> /\ rpc = "received"
    /\ HistoryLoaded /\ impact = <<>>
    /\ PlannerIdle /\ DriverIdle /\ JoinIdle /\ ParseIdle /\ GenIdle

NextPredict ==
    \/ PredictRejects /\ UNCHANGED notPredict
    \/ PredictCalls /\ UNCHANGED notPredict

SpecPredict == InitPredict /\ [][NextPredict]_vars

\* a direct call of predict_seismic_impact, as the scenarios of __main__ make
InitImpact ==
    /\ data \in [mass : Masses, velocity : Velocities,
                 latitude : {35, 90}, longitude : {139, -180}]
    /\ artifacts_ok \in BOOLEAN
    /\ called = FALSE /\ response = <<>> /\ rpc = "direct"
    /\ HistoryLoaded /\ impact = <<>>
    /\ PlannerIdle /\ DriverIdle /\ JoinIdle /\ ParseIdle /\ GenIdle

NextImpact == ImpactCall /\ UNCHANGED notPredict

SpecImpact == InitImpact /\ [][NextImpact]_vars

----------------------------------------------------------------------------
(* Claims about find_optimal_end_date (SpecPlanner) *)

IsLinear ==
    \E k \in 0..MaxK : countFn = LinearCount(start_date, max_end_date, k * 1000)

NonDecreasing ==
    \A d, e \in start_date..max_end_date : d <= e => countFn[d] <= countFn[e]

InTargetBand(count) == 12000 <= count /\ count <= 20000

\* C1: for a count function linear in the range length, the returned end's
\* count is at most 20000, and at least 12000 whenever some end of
\* [start, max_end] has a count between 12000 and 20000.
C1_LinearReachesTarget ==
    (ppc = "returned" /\ dpc = "idle" /\ IsLinear) =>
        /\ countFn[best_end] <= 20000
        /\ (\E e \in start_date..max_end_date : InTargetBand(countFn[e]))
              => countFn[best_end] >= 12000

\* C2: for a non-decreasing count function, the returned end is the largest
\* end of [start, max_end] whose count is at most 20000, unless the search
\* stopped early at an end whose count is between 12000 and 20000.
C2_ReturnsLargestUnderCap ==
    (ppc = "returned" /\ dpc = "idle" /\ NonDecreasing /\ stop # "early") =>
        /\ \A e \in start_date..max_end_date : countFn[e] <= 20000 => e <= best_end
        /\ (\E e \in start_date..max_end_date : countFn[e] <= 20000)
              => countFn[best_end] <= 20000

\* C13: find_optimal_end_date terminates for every count function and every
\* start <= max_end (the window right - left shrinks at every iteration), and
\* when the count of every range [start, end], start < end <= max_end, is over
\* 20000 it returns start.
C13_PlannerTerminates ==
    /\ [][(ppc = "loop" /\ ppc' = "loop") => right' - left' < right - left]_vars
    /\ <>(ppc = "returned")
    /\ [](( /\ ppc = "returned"
            /\ \A e \in (start_date + 1)..max_end_date : countFn[e] > 20000 )
            => best_end = start_date)

\* a span of four days or more, every range of it over the cap, searched down
\* to the degenerate interval
C13_Witness ==
    /\ ppc = "returned" /\ dpc = "idle"
    /\ max_end_date >= start_date + 4
    /\ \A e \in (start_date + 1)..max_end_date : countFn[e] > 20000
    /\ stop = "degenerate" /\ right < max_end_date
    /\ best_end = start_date

----------------------------------------------------------------------------
(* Claims about download_data_in_chunks (SpecDownload, SpecDownloadFair) *)

Covers(chunk, day) == chunk[1] <= day /\ day <= chunk[2]

\* C3: the downloaded chunks partition the span: the first starts on the start
\* date, each next one starts the day after the previous one's end, none ends
\* after final_date, and when the run finishes every day from the start date
\* to final_date lies in exactly one chunk.
C3_ChunksPartitionSpan ==
    /\ files # <<>> => files[1][1] = StartDay
    /\ \A i \in 2..Len(files) : files[i][1] = files[i - 1][2] + 1
    /\ \A i \in 1..Len(files) : files[i][2] <= final_date
    /\ dpc = "done" =>
          \A day \in StartDay..final_date :
              Cardinality({i \in 1..Len(files) : Covers(files[i], day)}) = 1

\* C4: current_date never decreases and strictly increases at every loop
\* iteration (also when the planner returns end = start); the run ends, by a
\* failed request or by leaving the loop; and when it has left the loop
\* current_date >= final_date or the sample target is reached.
C4_DownloadProgresses ==
    /\ [][/\ current_date' >= current_date
          /\ chunk_number' # chunk_number => current_date' > current_date]_vars
    /\ <>(dpc = "done" \/ dpc = "failed")
    /\ [](dpc = "done" =>
            current_date >= final_date \/ SamplesReached(total_samples_collected))

\* a run that ended after a degenerate chunk (end = start)
C4_Witness ==
    /\ dpc = "done"
    /\ \E i \in 1..Len(files) : files[i][1] = files[i][2]
    /\ Len(files) >= 2

\* C5: a failed request ends the run: the step that fails writes no chunk file
\* and adds nothing to the total, and after it no request is issued, no file
\* is written and nothing moves.
C5_FailureIsFatal ==
    /\ [][dpc' = "failed" =>
            /\ files' = files
            /\ total_samples_collected' = total_samples_collected
            /\ current_date' = current_date]_vars
    /\ [][dpc = "failed" => UNCHANGED vars]_vars
    /\ [](dpc = "failed" =>
            /\ Len(files) = chunk_number - 1
            /\ \A i \in 1..Len(files) : files[i][1] < current_date)

\* a download request failed after an earlier chunk was written
C5_Witness ==
    /\ dpc = "failed" /\ ppc = "idle" /\ Len(files) >= 1 /\ requests >= 5

----------------------------------------------------------------------------
(* Claims about join_data_files and parse_feature (SpecJoin, SpecParse) *)

RECURSIVE ParsedOf(_)
\* the parsed features of the files json.load accepts with features, in order
ParsedOf(fs) ==
    IF fs = <<>> THEN <<>>
    ELSE LET f == Head(fs)
             own == IF f.kind = "object" /\ "features" \in f.keys
                      THEN [j \in 1..Len(f.features) |-> parse_feature(f.features[j])]
                      ELSE <<>>
         IN  own \o ParsedOf(Tail(fs))

\* "[" e1 "," e2 "," ... en "]"
ArrayOf(elems) ==
    <<Open>>
    \o [n \in 1..(IF elems = <<>> THEN 0 ELSE 2 * Len(elems) - 1) |->
          IF n % 2 = 1 THEN Elem(elems[(n + 1) \div 2]) ELSE Comma]
    \o <<Close>>

\* C6: for any chunk files, join_data_files does not abort, and its output is
\* one well-formed array of exactly the parsed features of the well-formed
\* files, in order.
C6_JoinEmitsArray ==
    /\ jpc # "aborted"
    /\ jpc = "done" => out_f = ArrayOf(ParsedOf(data_files))

PartOf(f, part) == IF part \in DOMAIN f THEN f[part] ELSE [k \in {} |-> 0]

\* C7: the parsed feature's keys are the keys of properties and geometry
\* without the denylist, each with its value in the record, geometry's value
\* when both hold the key.
C7_ParseFeatureKeys ==
    parsed_feature # <<>> =>
        LET p == parsed_feature[1]
            properties == PartOf(feature, "properties")
            geometry == PartOf(feature, "geometry")
        IN  /\ DOMAIN p = (DOMAIN properties \cup DOMAIN geometry)
                            \ {"id", "url", "detail", "code", "ids", "sources",
                               "types", "title", "status", "type"}
            /\ \A k \in DOMAIN p :
                  p[k] = IF k \in DOMAIN geometry THEN geometry[k] ELSE properties[k]

\* a record whose properties and geometry hold the same kept key with
\* different values, and a denylisted key
C7_Witness ==
    /\ parsed_feature # <<>>
    /\ DOMAIN feature = {"properties", "geometry"}
    /\ "mag" \in DOMAIN feature["properties"] /\ "mag" \in DOMAIN feature["geometry"]
    /\ feature["properties"]["mag"] # feature["geometry"]["mag"]
    /\ "id" \in DOMAIN feature["properties"]
    /\ parsed_feature[1]["mag"] = feature["geometry"]["mag"]

----------------------------------------------------------------------------
(* Claims about generate_seismic_features (SpecGenerate) *)

\* C8: the alert tier is monotonic in the magnitude, whatever the depths drawn:
\* of any two calls, the one with the larger magnitude has no lower tier.
C8_AlertMonotonic ==
    \A i, j \in 1..Len(generated) :
        generated[i].mag <= generated[j].mag => generated[i].alert <= generated[j].alert

\* two calls, the second with the larger magnitude, another depth and a higher tier
C8_Witness ==
    /\ Len(generated) = 2
    /\ generated[1].mag < generated[2].mag
    /\ generated[1].depth # generated[2].depth
    /\ generated[1].alert = 2 /\ generated[2].alert = 3

----------------------------------------------------------------------------
(* Claims about POST /predict (SpecPredict) *)

\* C9: when an artifact fails to load, the request ends with a 500 whose detail
\* is "Prediction model failed to load or execute".
C9_LoadFailureReported ==
    (rpc = "responded" /\ ~artifacts_ok /\ called) =>
        response = HTTPException(500, "Prediction model failed to load or execute")

Invalid(d) ==
    \/ d.mass <= 0 \/ d.velocity <= 0
    \/ d.latitude < -90 \/ d.latitude > 90
    \/ d.longitude < -180 \/ d.longitude > 180

\* C10: a request with mass <= 0, velocity <= 0, latitude outside [-90, 90] or
\* longitude outside [-180, 180] gets a 400 and predict_seismic_impact is not
\* called; for every other request it is called.
C10_InvalidRejected ==
    rpc = "responded" =>
        IF Invalid(data) THEN response.status = 400 /\ ~called
        ELSE called

\* a request rejected for its longitude alone
C10_Witness ==
    /\ rpc = "responded" /\ response.status = 400
    /\ data.mass > 0 /\ data.velocity > 0 /\ data.latitude = 90
    /\ data.longitude = 181

----------------------------------------------------------------------------
(* Claims about predict_seismic_impact and find_closest_in_cluster *)

\* the call returned its 3-tuple
ImpactReturned == impact # <<>> /\ impact[1].ret.kind = "tuple"

\* the places of the rows assigned to the predicted cluster
ClusterPlaces ==
    {n \in 1..Len(clustered_data) :
        clustered_data[n]["cluster"] = impact[1].predicted_cluster}

\* the distance of the row at a place to the normalized synthetic vector
DistanceTo(n) ==
    SquaredDistance(Normalized(impact[1].synthetic_features), clustered_data[n],
                    Len(comparison_features))

\* the places of the nearest rows of the predicted cluster
NearestPlaces ==
    {n \in ClusterPlaces : \A m \in ClusterPlaces : DistanceTo(n) <= DistanceTo(m)}

\* C11: when the predicted cluster holds a historical row, the result of
\* predict_seismic_impact has the fields of the synthetic vector, mag, latitude
\* and longitude with their synthetic values and every other field with the
\* original-scale value of a nearest row of the cluster.
C11_RefinedFromNearest ==
    (ImpactReturned /\ ClusterPlaces # {}) =>
        LET synthetic == impact[1].synthetic_features
            result == impact[1].ret.result[1]
        IN  /\ DOMAIN result = DOMAIN synthetic
            /\ \E n \in NearestPlaces :
                 \A f \in DOMAIN synthetic :
                    result[f] = IF f \in {"mag", "latitude", "longitude"}
                                  THEN synthetic[f]
                                  ELSE original_data[n][f]

\* a refined result: the predicted cluster holds two rows, the nearest is the
\* second of the table, and its mag, latitude and longitude are not the
\* synthetic ones
C11_Witness ==
    /\ ImpactReturned
    /\ Len(clustered_data) = 2 /\ ClusterPlaces = {1, 2} /\ NearestPlaces = {2}
    /\ \A f \in {"mag", "latitude", "longitude"} :
          original_data[2][f] # impact[1].synthetic_features[f]
    /\ impact[1].ret.result[1]["depth"] = original_data[2]["depth"]
    /\ impact[1].ret.result[1]["mag"] = impact[1].synthetic_features["mag"]

\* C12: when no historical row is assigned to the predicted cluster,
\* find_closest_in_cluster answers no match, and predict_seismic_impact returns
\* the synthetic vector as it was generated, the kinetic energy and the
\* predicted cluster.
C12_EmptyClusterFallsBack ==
    (ImpactReturned /\ ClusterPlaces = {}) =>
        /\ impact[1].closest = <<>>
        /\ impact[1].ret.result = <<impact[1].synthetic_features>>
        /\ impact[1].ret.energy = calculate_kinetic_energy(data.mass, data.velocity)
        /\ impact[1].ret.cluster = impact[1].predicted_cluster

\* the fallback on a table that has rows, none of them in the predicted cluster
C12_Witness ==
    /\ ImpactReturned
    /\ Len(clustered_data) = 2 /\ ClusterPlaces = {}
    /\ impact[1].closest = <<>>
    /\ impact[1].ret.result = <<impact[1].synthetic_features>>

====
